---- MODULE Spec2Model ----
(***************************************************************************)
(* CAN-FD to Ethernet gateway (src/src/main.cpp): the forward loop         *)
(* run_gateway as a state machine.  One loop iteration is                  *)
(*   read(can_sock) -> clock_gettime + fill pkt -> sendto(udp_sock)        *)
(* and the model stops between the system calls.  Memory is modelled at    *)
(* the byte level: struct canfd_frame is 72 bytes, GatewayPacket is 78     *)
(* packed bytes, 64-bit and 32-bit integers are little-endian byte         *)
(* sequences (host byte order of the targets) so that unsigned arithmetic  *)
(* keeps its width.  Sequences are 1-based: C index i is TLA+ index i+1.   *)
(***************************************************************************)
EXTENDS Integers, Sequences, FiniteSets, TLC

VARIABLES
    pc,       \* position of the single thread in run_gateway
    frame,    \* struct canfd_frame frame   (main.cpp:95)
    pkt,      \* GatewayPacket pkt          (main.cpp:96)
    nbytes,   \* ssize_t nbytes             (main.cpp:101)
    errno,    \* the C library's errno
    ts,       \* struct timespec ts         (main.cpp:110)
    mono,     \* the last reading CLOCK_MONOTONIC has handed out
    reads,    \* history: what every read() call returned, in call order
    sent,     \* history: every sendto() call, in call order
    diag,     \* history: every line written to stderr by the loop
    clocks,   \* history: every clock_gettime() call, in call order
    copies,   \* history: every memcpy() call of the loop, in call order
    argv,     \* argv[1..argc-1] of main
    dest_addr,    \* struct sockaddr_in dest_addr   (main.cpp:158)
    exit_status,  \* <<>> while the process runs, <<status>> once it has exited
    host,     \* history: the calls of main's start-up and how each went
    budget    \* number of read() calls the run is followed for

startup == <<argv, dest_addr, exit_status, host, budget>>

vars == <<pc, frame, pkt, nbytes, errno, ts, mono, reads, sent, diag, clocks,
          copies, argv, dest_addr, exit_status, host, budget>>

(***************************** bounds **************************************)
\* The loop never ends; the model stops after MaxReads calls of read().
MaxReads == 3
\* Largest tv_sec the modelled clock hands out.
MaxSec == 1
\* Calls of read() followed in a run that starts at main.
MaxReadsMain == 1

(************************* program constants *******************************)
CANFD_MAX_DLEN == 64                       \* uint8_t data[64]
FRAME_SIZE == 4 + 1 + 1 + 1 + 1 + CANFD_MAX_DLEN   \* sizeof(struct canfd_frame)
PACKET_SIZE_classic == 8 + 4 + 1 + 1 + 8           \* variant: a data[8] packet
PACKET_SIZE == 8 + 4 + 1 + 1 + CANFD_MAX_DLEN      \* sizeof(GatewayPacket), packed
CAN_MTU == 8 + 8                           \* sizeof(struct can_frame)
CANFD_BRS == 1
CANFD_ESI == 2
NSEC_PER_SEC == 1000000000
AF_INET == 2
EXIT_FAILURE == 1

(************************ fixed-width arithmetic ***************************)
\* n (0 <= n < 2^31) as w little-endian bytes, w >= 4.
LEBytes(n, w) ==
    [i \in 1..w |-> IF i <= 4 THEN (n \div (256 ^ (i - 1))) % 256 ELSE 0]

RECURSIVE Propagate(_, _, _)
\* Carry propagation over byte columns; the carry out of the last column is
\* dropped, which is reduction modulo 256^Len(cols).
Propagate(cols, i, carry) ==
    IF i > Len(cols) THEN <<>>
    ELSE LET v == cols[i] + carry
         IN  <<v % 256>> \o Propagate(cols, i + 1, v \div 256)

RECURSIVE SumProd(_, _, _, _)
SumProd(a, b, k, i) ==
    IF i > k THEN 0 ELSE a[i] * b[k + 1 - i] + SumProd(a, b, k, i + 1)

\* uint64_t multiplication and addition (mod 2^64) on 8-byte operands.
MulU64(a, b) == Propagate([k \in 1..8 |-> SumProd(a, b, k, 1)], 1, 0)
AddU64(a, b) == Propagate([k \in 1..8 |-> a[k] + b[k]], 1, 0)

RECURSIVE BitAnd(_, _)
BitAnd(x, y) ==
    IF x = 0 \/ y = 0 THEN 0
    ELSE (x % 2) * (y % 2) + 2 * BitAnd(x \div 2, y \div 2)

RECURSIVE BitOr(_, _)
BitOr(x, y) ==
    IF x = 0 THEN y
    ELSE IF y = 0 THEN x
    ELSE (IF x % 2 = 1 \/ y % 2 = 1 THEN 1 ELSE 0) + 2 * BitOr(x \div 2, y \div 2)

(***************************** memory **************************************)
Fill(b, n) == [i \in 1..n |-> b]

\* memset(dst, b, n), n <= Len(dst)
MemSet(dst, b, n) == [i \in 1..Len(dst) |-> IF i <= n THEN b ELSE dst[i]]

\* memcpy(dst, src, n), n <= Len(dst) and n <= Len(src)
MemCpy(dst, src, n) == [i \in 1..Len(dst) |-> IF i <= n THEN src[i] ELSE dst[i]]

\* bytes from..to of s
Slice(s, from, to) == SubSeq(s, from, to)

\* struct canfd_frame <-> its 72 bytes (can_id, len, flags, __res0, __res1, data[64])
FrameBytes(f) == f.can_id \o <<f.len, f.flags, f.res0, f.res1>> \o f.data

FrameOf(b) ==
    [can_id |-> Slice(b, 1, 4), len |-> b[5], flags |-> b[6],
     res0 |-> b[7], res1 |-> b[8], data |-> Slice(b, 9, FRAME_SIZE)]

\* GatewayPacket -> its 78 bytes, #pragma pack(1): no gaps between the fields
PacketBytes(p) == p.timestamp_ns \o p.can_id \o <<p.dlc, p.flags>> \o p.data

(*************************** the environment *******************************)
\* What the stack holds where frame and pkt are allocated: indeterminate.
StackGarbage == {0, 205}

Payload(prefix, rest) == prefix \o Fill(rest, CANFD_MAX_DLEN - Len(prefix))

\* CAN-FD frames the bus delivers.  The kernel hands a CAN_RAW socket only
\* frames with len <= CANFD_MAX_DLEN; bytes of data[] past len are whatever
\* the sender left there.
BusFrames ==
    { \* id 0x123, 3 bytes AA BB CC, BRS
      [can_id |-> <<35, 1, 0, 0>>, len |-> 3, flags |-> 1, res0 |-> 0, res1 |-> 0,
       data |-> Payload(<<170, 187, 204>>, 0)],
      \* extended id 0x9ABCDEF0 (CAN_EFF_FLAG set), 64 bytes FF, BRS|ESI|FDF
      [can_id |-> <<240, 222, 188, 154>>, len |-> 64, flags |-> 7, res0 |-> 0, res1 |-> 0,
       data |-> Fill(255, CANFD_MAX_DLEN)],
      \* id 0x400007FF (CAN_RTR_FLAG set), empty payload, ESI, data[] full of
      \* sender leftovers
      [can_id |-> <<255, 7, 0, 64>>, len |-> 0, flags |-> 2, res0 |-> 0, res1 |-> 0,
       data |-> Fill(90, CANFD_MAX_DLEN)],
      \* id 0x20000001 (CAN_ERR_FLAG set), 63 bytes 1..63, only unknown flag
      \* bits, one leftover byte after the payload
      [can_id |-> <<1, 0, 0, 32>>, len |-> 63, flags |-> 252, res0 |-> 9, res1 |-> 9,
       data |-> [i \in 1..CANFD_MAX_DLEN |-> i]] }

\* Full-size frames whose length byte is above CANFD_MAX_DLEN, as a frame
\* source that does not validate the byte would deliver them.
OversizeFrames ==
    { \* id 0x123, len 65: one byte more than data[] holds
      [can_id |-> <<35, 1, 0, 0>>, len |-> 65, flags |-> 1, res0 |-> 0, res1 |-> 0,
       data |-> Fill(17, CANFD_MAX_DLEN)],
      \* id 0x124, len 255: the largest value of the length byte
      [can_id |-> <<36, 1, 0, 0>>, len |-> 255, flags |-> 0, res0 |-> 0, res1 |-> 0,
       data |-> Fill(34, CANFD_MAX_DLEN)] }

\* A classic CAN frame (struct can_frame, CAN_MTU bytes) arriving on the
\* FD-enabled socket: read() returns CAN_MTU, less than sizeof(frame).
\* id 0x321, can_dlc 8, data 8 x 0x77.
ClassicFrameBytes == <<33, 3, 0, 0, 8, 0, 0, 0>> \o Fill(119, 8)

\* Outcomes of read(can_sock, &frame, sizeof(frame)) that are not one full
\* frame: the bytes delivered (a prefix of the buffer is overwritten).
ShortReads == {<<>>, ClassicFrameBytes}

ReadErrnos == {"EINTR", "ENETDOWN"}

\* Return values of sendto(): the byte count, or -1.
SendResults == {PACKET_SIZE, -1}

\* Readings of CLOCK_MONOTONIC (a valid timespec: 0 <= tv_nsec < 10^9): the
\* first and the last nanosecond of each second.
ClockReadings ==
    {[tv_sec |-> s, tv_nsec |-> n] : s \in 0..MaxSec, n \in {0, NSEC_PER_SEC - 1}}

TsLe(a, b) ==
    a.tv_sec < b.tv_sec \/ (a.tv_sec = b.tv_sec /\ a.tv_nsec <= b.tv_nsec)

TsLt(a, b) == TsLe(a, b) /\ a # b

\* What clock_gettime(CLOCK_MONOTONIC) can return when the last reading was
\* m: the clock never goes back; between two calls it stands still or moves
\* to the next modelled reading.
ClockAfter(m) ==
    {r \in ClockReadings :
        /\ TsLe(m, r)
        /\ ~ \E q \in ClockReadings : TsLt(m, q) /\ TsLt(q, r)}

(*************************** parse_address *********************************)
\* C strings are sequences of one-character strings.
Digits == <<"0", "1", "2", "3", "4", "5", "6", "7", "8", "9">>
IsDigit(c) == \E i \in 1..10 : Digits[i] = c
DigitVal(c) == (CHOOSE i \in 1..10 : Digits[i] = c) - 1

RECURSIVE DigitRun(_)
\* the longest prefix of s made of decimal digits
DigitRun(s) ==
    IF s # <<>> /\ IsDigit(s[1]) THEN <<s[1]>> \o DigitRun(Tail(s)) ELSE <<>>

RECURSIVE DecimalValue(_)
DecimalValue(ds) ==
    IF ds = <<>> THEN 0
    ELSE DecimalValue(SubSeq(ds, 1, Len(ds) - 1)) * 10 + DigitVal(ds[Len(ds)])

RECURSIVE SkipSpace(_)
SkipSpace(s) == IF s # <<>> /\ s[1] = " " THEN SkipSpace(Tail(s)) ELSE s

\* sscanf's %d: white space is skipped, then an optional sign and at least
\* one digit are converted; what follows the digits is left unread.
ScanInt(s) ==
    LET t   == SkipSpace(s)
        neg == t # <<>> /\ t[1] = "-"
        u   == IF t # <<>> /\ t[1] \in {"+", "-"} THEN Tail(t) ELSE t
        ds  == DigitRun(u)
    IN  [ok |-> ds # <<>>,
         value |-> IF neg THEN 0 - DecimalValue(ds) ELSE DecimalValue(ds)]

RECURSIVE ScanSet(_, _)
\* sscanf's %63[^:]: the longest prefix of at most w characters other than ':'
ScanSet(s, w) ==
    IF s # <<>> /\ w > 0 /\ s[1] # ":"
    THEN <<s[1]>> \o ScanSet(Tail(s), w - 1) ELSE <<>>

\* sscanf(addr_str, "%63[^:]:%d", ip, &port): n is the number of conversions
\* made; port is meaningful only when n = 2.
Sscanf(s) ==
    LET ip   == ScanSet(s, 63)
        rest == SubSeq(s, Len(ip) + 1, Len(s))
        int  == ScanInt(Tail(rest))
    IN  IF ip = <<>> THEN [n |-> 0, ip |-> ip, port |-> 0]
        ELSE IF rest = <<>> \/ rest[1] # ":" THEN [n |-> 1, ip |-> ip, port |-> 0]
        ELSE IF ~int.ok THEN [n |-> 1, ip |-> ip, port |-> 0]
        ELSE [n |-> 2, ip |-> ip, port |-> int.value]

RECURSIVE Pton4(_, _, _, _)
\* inet_pton(AF_INET, ...) of the C library: four decimal numbers of at most
\* 255 without leading zeros, separated by single dots, and nothing else.
\* tmp holds the octets begun so far, the last one being filled.
Pton4(src, tmp, saw_digit, octets) ==
    IF src = <<>>
    THEN IF octets < 4 THEN [rc |-> 0, addr |-> tmp] ELSE [rc |-> 1, addr |-> tmp]
    ELSE LET ch == src[1]
             tp == Len(tmp)
         IN  IF IsDigit(ch)
             THEN LET new == tmp[tp] * 10 + DigitVal(ch)
                  IN  IF saw_digit /\ tmp[tp] = 0 THEN [rc |-> 0, addr |-> tmp]
                      ELSE IF new > 255 THEN [rc |-> 0, addr |-> tmp]
                      ELSE IF ~saw_digit /\ octets + 1 > 4 THEN [rc |-> 0, addr |-> tmp]
                      ELSE Pton4(Tail(src), [tmp EXCEPT ![tp] = new], TRUE,
                                 IF saw_digit THEN octets ELSE octets + 1)
             ELSE IF ch = "." /\ saw_digit
             THEN IF octets = 4 THEN [rc |-> 0, addr |-> tmp]
                  ELSE Pton4(Tail(src), Append(tmp, 0), FALSE, octets)
             ELSE [rc |-> 0, addr |-> tmp]

InetPton(ip) == Pton4(ip, <<0>>, FALSE, 0)

\* static_cast<uint16_t>(port)
ToUint16(port) == port % 65536

\* htons(): the two bytes of sin_port as they lie in memory, high byte first
Htons(v) == <<v \div 256, v % 256>>

\* Variants of parse_address.
ParseAddress_portChecked(s, addr) ==
    LET sc == Sscanf(s)
        pt == InetPton(sc.ip)
    IN  IF sc.n # 2 \/ sc.port < 1 \/ sc.port > 65535
        THEN [ret |-> FALSE, addr |-> addr]
        ELSE [ret |-> pt.rc = 1,
              addr |-> [sin_family |-> AF_INET, sin_port |-> Htons(sc.port),
                        sin_addr |-> IF pt.rc = 1 THEN pt.addr ELSE addr.sin_addr]]

\* bool parse_address(const char* addr_str, struct sockaddr_in& addr)
ParseAddress(s, addr) ==
    LET sc == Sscanf(s)
    IN  IF sc.n # 2 THEN [ret |-> FALSE, addr |-> addr]
        ELSE LET a1 == [addr EXCEPT !.sin_family = AF_INET]
                 a2 == [a1 EXCEPT !.sin_port = Htons(ToUint16(sc.port))]
                 pt == InetPton(sc.ip)
                 a3 == IF pt.rc = 1 THEN [a2 EXCEPT !.sin_addr = pt.addr] ELSE a2
             IN  [ret |-> pt.rc = 1, addr |-> a3]

\* struct sockaddr_in dest_addr = {};
ZeroAddr == [sin_family |-> 0, sin_port |-> <<0, 0>>, sin_addr |-> <<0, 0, 0, 0>>]

\* "192.168.1.100:5000", the destination of the usage text
ExampleDest ==
    <<"1", "9", "2", ".", "1", "6", "8", ".", "1", ".", "1", "0", "0", ":",
      "5", "0", "0", "0">>

(*************************** run_gateway ***********************************)
\* read() copies n bytes to the start of the frame buffer; the rest keeps
\* what it held.
ReadInto(f, bytes) == FrameOf(MemCpy(FrameBytes(f), bytes, Len(bytes)))

\* Variants of the tests and assignments below, each changed the way a slip
\* in the code would change it; the properties at the end must tell them apart.
NextAfterRead_acceptShort(n) == IF n <= 0 THEN "read" ELSE "build"
NextAfterRead_continueAlways(n) == "read"
NextAfterRead_breakOnError(n) ==
    IF n < 0 THEN "returned" ELSE IF n # FRAME_SIZE THEN "read" ELSE "build"
ReportsReadError_anyErrno(n, e) == n < 0
ComputeNs_microseconds(t) ==
    AddU64(MulU64(LEBytes(t.tv_sec, 8), LEBytes(1000000, 8)), LEBytes(t.tv_nsec, 8))
SetFlags_noClear(old, fflags) ==
    LET f1 == IF BitAnd(fflags, CANFD_BRS) # 0 THEN BitOr(old, 1) ELSE old
        f2 == IF BitAnd(fflags, CANFD_ESI) # 0 THEN BitOr(f1, 2) ELSE f1
    IN  f2
SetFlags_verbatim(old, fflags) == fflags
CopyData_noMemset(old, f) == IF f.len > 0 THEN MemCpy(old, f.data, f.len) ELSE old
CopyData_classicLength(old, f) ==
    LET z == MemSet(old, 0, 64)
    IN  IF f.len > 0 THEN MemCpy(z, f.data, IF f.len > 8 THEN 8 ELSE f.len) ELSE z
NextAfterSend_retry(rc) == IF rc < 0 THEN "send" ELSE "read"
CopyData_copyWholeBuffer(old, f) == MemCpy(MemSet(old, 0, 64), f.data, 64)
CopyCanId_masked(id) == [id EXCEPT ![4] = @ % 32]
FillPacket_staleStamp(p, f, t) ==
    [p EXCEPT !.can_id = f.can_id, !.dlc = f.len, !.flags = f.flags % 4,
              !.data = [i \in 1..64 |-> IF i <= f.len THEN f.data[i] ELSE 0]]

\* if (nbytes != sizeof(frame)) { ...; continue; }
NextAfterRead(n) == IF n # FRAME_SIZE THEN "read" ELSE "build"

\* if (nbytes < 0 && errno != EINTR) perror("read CAN");
ReportsReadError(n, e) == n < 0 /\ e # "EINTR"

\* static_cast<uint64_t>(ts.tv_sec) * 1000000000ULL + ts.tv_nsec
ComputeNs(t) ==
    AddU64(MulU64(LEBytes(t.tv_sec, 8), LEBytes(NSEC_PER_SEC, 8)),
           LEBytes(t.tv_nsec, 8))

\* The same, computed once for every reading the clock can hand out.
NsOfReading == [r \in ClockReadings |-> ComputeNs(r)]

\* pkt.timestamp_ns = ...
TimestampNs(t) == NsOfReading[t]

\* pkt.can_id = frame.can_id;
CopyCanId(id) == id

\* pkt.flags = 0; if (frame.flags & CANFD_BRS) |= 0x01; if (... & CANFD_ESI) |= 0x02;
SetFlags(old, fflags) ==
    LET f0 == 0
        f1 == IF BitAnd(fflags, CANFD_BRS) # 0 THEN BitOr(f0, 1) ELSE f0
        f2 == IF BitAnd(fflags, CANFD_ESI) # 0 THEN BitOr(f1, 2) ELSE f1
    IN  f2

\* memset(pkt.data, 0, 64); if (frame.len > 0) memcpy(pkt.data, frame.data, frame.len);
CopyData(old, f) ==
    LET z == MemSet(old, 0, 64)
    IN  IF f.len > 0 THEN MemCpy(z, f.data, f.len) ELSE z

\* Lines 112-125: the assignments to pkt, in program order.
FillPacket(p, f, t) ==
    LET p1 == [p  EXCEPT !.timestamp_ns = TimestampNs(t)]
        p2 == [p1 EXCEPT !.can_id = CopyCanId(f.can_id)]
        p3 == [p2 EXCEPT !.dlc = f.len]
        p4 == [p3 EXCEPT !.flags = SetFlags(@, f.flags)]
        p5 == [p4 EXCEPT !.data = CopyData(@, f)]
    IN  p5

\* The memcpy() calls of one iteration: none for an empty frame, else one of
\* frame.len bytes from frame.data (64 bytes) to pkt.data (64 bytes).
MemcpyCalls(f, at) ==
    IF f.len > 0 THEN <<[n |-> f.len, at |-> at, src |-> Len(f.data),
                         dst |-> CANFD_MAX_DLEN]>>
                 ELSE <<>>

\* What that memcpy() does: within both arrays it copies and returns.  Past
\* their end the behaviour is undefined: the build either runs on over the
\* neighbouring stack memory ("overrun") or is stopped by the fortified
\* memcpy or a fault ("abort").
MemcpyOutcomes(f) ==
    IF f.len <= CANFD_MAX_DLEN THEN {"done"} ELSE {"overrun", "abort"}

NextAfterCopy(o) == IF o = "abort" THEN "aborted" ELSE "send"

\* The loop goes back to read() whether or not sendto() failed.
NextAfterSend(rc) == "read"

Init ==
    /\ pc = "entry"
    /\ \E g \in StackGarbage :
         /\ frame = FrameOf(Fill(g, FRAME_SIZE))
         /\ pkt = [timestamp_ns |-> Fill(g, 8), can_id |-> Fill(g, 4),
                   dlc |-> g, flags |-> g, data |-> Fill(g, CANFD_MAX_DLEN)]
    /\ nbytes = 0
    /\ errno = "0"
    /\ ts = [tv_sec |-> 0, tv_nsec |-> 0]
    /\ mono = [tv_sec |-> 0, tv_nsec |-> 0]
    /\ reads = <<>>
    /\ sent = <<>>
    /\ diag = <<>>
    /\ clocks = <<>>
    /\ copies = <<>>
    /\ argv = <<"can0", ExampleDest>>
    /\ dest_addr = ParseAddress(ExampleDest, ZeroAddr).addr
    /\ exit_status = <<>>
    /\ host = <<>>
    /\ budget = MaxReads

\* printf("Starting gateway loop...\n"); while (true) {
Enter ==
    /\ pc = "entry"
    /\ pc' = "read"
    /\ UNCHANGED <<frame, pkt, nbytes, errno, ts, mono, reads, sent, diag, clocks, copies, startup>>

\* The common part of a return of read(): n is the return value, e the
\* errno after the call, bytes what was copied into frame.
ReadReturns(n, e, bytes) ==
    /\ pc = "read"
    /\ Len(reads) < budget
    /\ nbytes' = n
    /\ errno' = e
    /\ frame' = ReadInto(frame, bytes)
    /\ reads' = Append(reads, [nbytes |-> n, errno |-> e, bytes |-> bytes])
    /\ diag' = IF n # FRAME_SIZE /\ ReportsReadError(n, e)
               THEN Append(diag, [msg |-> "read CAN", at |-> Len(reads) + 1])
               ELSE diag
    /\ pc' = NextAfterRead(n)
    /\ UNCHANGED <<pkt, ts, mono, sent, clocks, copies, startup>>

\* read() returns one complete struct canfd_frame.
ReadFull == \E f \in BusFrames : ReadReturns(FRAME_SIZE, errno, FrameBytes(f))

\* read() returns fewer bytes than sizeof(frame), possibly none.
ReadShort == \E b \in ShortReads : ReadReturns(Len(b), errno, b)

\* read() fails: -1 and errno set, the buffer untouched.
ReadError == \E e \in ReadErrnos : ReadReturns(-1, e, <<>>)

\* clock_gettime(CLOCK_MONOTONIC, &ts) and the assignments to pkt.
BuildPacket ==
    /\ pc = "build"
    /\ \E r \in ClockAfter(mono) :
         /\ mono' = r
         /\ ts' = r
         /\ pkt' = FillPacket(pkt, frame, r)
         /\ clocks' = Append(clocks, [r |-> r, at |-> Len(reads),
                                      sends |-> Len(sent)])
    /\ copies' = copies \o MemcpyCalls(frame, Len(reads))
    /\ \E o \in MemcpyOutcomes(frame) : pc' = NextAfterCopy(o)
    /\ UNCHANGED <<frame, nbytes, errno, reads, sent, diag, startup>>

\* sendto(udp_sock, &pkt, PACKET_SIZE, ...); perror("sendto UDP") on failure.
SendPacket ==
    /\ pc = "send"
    /\ \E rc \in SendResults :
         /\ sent' = Append(sent, [buf |-> Slice(PacketBytes(pkt), 1, PACKET_SIZE),
                                  rc |-> rc, at |-> Len(reads), ts |-> ts,
                                  to |-> dest_addr])
         /\ diag' = IF rc < 0
                    THEN Append(diag, [msg |-> "sendto UDP", at |-> Len(reads)])
                    ELSE diag
         /\ errno' = IF rc < 0 THEN "ENETUNREACH" ELSE errno
         /\ pc' = NextAfterSend(rc)
    /\ UNCHANGED <<frame, pkt, nbytes, ts, mono, reads, clocks, copies, startup>>

Next == Enter \/ ReadFull \/ ReadShort \/ ReadError \/ BuildPacket \/ SendPacket

Spec == Init /\ [][Next]_vars

\* read() returns one complete struct canfd_frame whose len is above 64.
ReadOversize ==
    \E f \in OversizeFrames : ReadReturns(FRAME_SIZE, errno, FrameBytes(f))

\* The loop on a frame source that does not bound the length byte.
NextRaw ==
    Enter \/ ReadFull \/ ReadShort \/ ReadError \/ ReadOversize
          \/ BuildPacket \/ SendPacket

SpecRaw == Init /\ [][NextRaw]_vars

(******************************* main **************************************)
\* 10.0.0.1
Ip10 == <<"1", "0", ".", "0", ".", "0", ".", "1">>

\* Texts given as <dest_ip:port>.
DestStrings ==
    { ExampleDest,
      Ip10 \o <<":", "7", "0", "0", "0", "0">>,          \* port above 65535
      Ip10 \o <<":", "6", "5", "5", "3", "6">>,          \* port 2^16
      Ip10 \o <<":", "-", "1">>,                         \* negative port
      Ip10,                                              \* no colon
      <<":", "5", "0", "0", "0">>,                       \* nothing before the colon
      Ip10 \o <<":", "a", "b", "c">>,                    \* no integer
      <<"1", "0", ".", "0", ".", "0", ".", "2", "5", "6", ":", "8", "0">>,
      <<"h", "o", "s", "t", ":", "8", "0">> }

\* argv[1..] of the command lines tried: argc = 1, 2, 3 and 4.
CommandLines ==
    {<<>>, <<"can0">>, <<"can0", ExampleDest, "extra">>}
       \cup {<<"can0", d>> : d \in DestStrings}

\* Return values of mlockall() and sched_setscheduler().
PrivilegedResults == {0, -1}

\* How open_can_socket goes: the first call that fails, if any.
CanOpenFailures == {"none", "socket(PF_CAN)", "ioctl(SIOCGIFINDEX)", "bind"}

Line(m) == [msg |-> m, at |-> 0]
Call(c, ok) == [call |-> c, ok |-> ok]

\* Variants of main's decisions.
NextAfterParse_ignore(ok) == "mlock"
NextAfterMlock_fatal(rc) == IF rc = -1 THEN "exited" ELSE "sched"

\* if (argc != 3) { ...; return EXIT_FAILURE; }
NextAfterArgs(argc) == IF argc # 3 THEN "exited" ELSE "parse"

\* if (!parse_address(dest_str, dest_addr)) { ...; return EXIT_FAILURE; }
NextAfterParse(ok) == IF ok THEN "mlock" ELSE "exited"

\* if (mlockall(...) == -1) { warning }
NextAfterMlock(rc) == "sched"

\* set_realtime_priority() returns to main whatever sched_setscheduler did
NextAfterSched(rc) == "open_can"

\* open_can_socket: exit(EXIT_FAILURE) after the first failing call
NextAfterCanOpen(fail) == IF fail = "none" THEN "open_udp" ELSE "exited"

\* open_udp_socket: exit(EXIT_FAILURE) if socket() fails
NextAfterUdpOpen(ok) == IF ok THEN "entry" ELSE "exited"

\* return EXIT_FAILURE from main, or exit(EXIT_FAILURE)
ExitStatusAt(newpc) == IF newpc = "exited" THEN <<EXIT_FAILURE>> ELSE exit_status

loopLocals == <<frame, pkt, nbytes, ts, mono, reads, sent, clocks, copies>>

InitMain ==
    /\ pc = "main"
    /\ argv \in CommandLines
    /\ dest_addr = ZeroAddr
    /\ exit_status = <<>>
    /\ host = <<>>
    /\ budget = MaxReadsMain
    /\ \E g \in StackGarbage :
         /\ frame = FrameOf(Fill(g, FRAME_SIZE))
         /\ pkt = [timestamp_ns |-> Fill(g, 8), can_id |-> Fill(g, 4),
                   dlc |-> g, flags |-> g, data |-> Fill(g, CANFD_MAX_DLEN)]
    /\ nbytes = 0
    /\ errno = "0"
    /\ ts = [tv_sec |-> 0, tv_nsec |-> 0]
    /\ mono = [tv_sec |-> 0, tv_nsec |-> 0]
    /\ reads = <<>>
    /\ sent = <<>>
    /\ diag = <<>>
    /\ clocks = <<>>
    /\ copies = <<>>

\* main.cpp:150-154
CheckArgs ==
    /\ pc = "main"
    /\ pc' = NextAfterArgs(Len(argv) + 1)
    /\ diag' = IF Len(argv) + 1 # 3
               THEN diag \o <<Line("Usage"), Line("Example")>> ELSE diag
    /\ exit_status' = ExitStatusAt(pc')
    /\ UNCHANGED <<loopLocals, errno, argv, dest_addr, host, budget>>

\* main.cpp:156-163
ParseDest ==
    /\ pc = "parse"
    /\ LET r == ParseAddress(argv[2], dest_addr)
       IN  /\ dest_addr' = r.addr
           /\ host' = Append(host, Call("parse_address", r.ret))
           /\ diag' = IF r.ret THEN diag ELSE Append(diag, Line("Invalid destination"))
           /\ pc' = NextAfterParse(r.ret)
    /\ exit_status' = ExitStatusAt(pc')
    /\ UNCHANGED <<loopLocals, errno, argv, budget>>

\* main.cpp:165-168
LockMemory ==
    /\ pc = "mlock"
    /\ \E rc \in PrivilegedResults :
         /\ host' = Append(host, Call("mlockall", rc # -1))
         /\ errno' = IF rc = -1 THEN "EPERM" ELSE errno
         /\ diag' = IF rc = -1 THEN Append(diag, Line("WARNING: mlockall failed"))
                    ELSE diag
         /\ pc' = NextAfterMlock(rc)
    /\ exit_status' = ExitStatusAt(pc')
    /\ UNCHANGED <<loopLocals, argv, dest_addr, budget>>

\* main.cpp:170 and set_realtime_priority
SetRealtimePriority ==
    /\ pc = "sched"
    /\ \E rc \in PrivilegedResults :
         /\ host' = Append(host, Call("sched_setscheduler", rc # -1))
         /\ errno' = IF rc = -1 THEN "EPERM" ELSE errno
         /\ diag' = IF rc = -1
                    THEN Append(diag, Line("WARNING: Failed to set SCHED_FIFO"))
                    ELSE diag
         /\ pc' = NextAfterSched(rc)
    /\ exit_status' = ExitStatusAt(pc')
    /\ UNCHANGED <<loopLocals, argv, dest_addr, budget>>

\* main.cpp:172 and open_can_socket: socket, ioctl, bind, each called only
\* if the one before succeeded; perror and exit at the first failure.
OpenCanSocket ==
    /\ pc = "open_can"
    /\ \E fail \in CanOpenFailures :
         /\ host' = host \o
               CASE fail = "socket(PF_CAN)" -> <<Call("socket(PF_CAN)", FALSE)>>
                 [] fail = "ioctl(SIOCGIFINDEX)" ->
                       <<Call("socket(PF_CAN)", TRUE), Call("ioctl(SIOCGIFINDEX)", FALSE)>>
                 [] fail = "bind" ->
                       <<Call("socket(PF_CAN)", TRUE), Call("ioctl(SIOCGIFINDEX)", TRUE),
                         Call("bind", FALSE)>>
                 [] OTHER ->
                       <<Call("socket(PF_CAN)", TRUE), Call("ioctl(SIOCGIFINDEX)", TRUE),
                         Call("bind", TRUE)>>
         /\ errno' = CASE fail = "socket(PF_CAN)" -> "EPROTONOSUPPORT"
                       [] fail = "ioctl(SIOCGIFINDEX)" -> "ENODEV"
                       [] fail = "bind" -> "ENETDOWN"
                       [] OTHER -> errno
         /\ diag' = CASE fail = "socket(PF_CAN)" ->
                            Append(diag, Line("Failed to create CAN socket"))
                      [] fail = "ioctl(SIOCGIFINDEX)" ->
                            Append(diag, Line("ioctl SIOCGIFINDEX"))
                      [] fail = "bind" -> Append(diag, Line("bind CAN socket"))
                      [] OTHER -> diag
         /\ pc' = NextAfterCanOpen(fail)
    /\ exit_status' = ExitStatusAt(pc')
    /\ UNCHANGED <<loopLocals, argv, dest_addr, budget>>

\* main.cpp:173 and open_udp_socket; the result of setsockopt is not looked at.
OpenUdpSocket ==
    /\ pc = "open_udp"
    /\ \E ok \in BOOLEAN :
         /\ host' = Append(host, Call("socket(AF_INET)", ok))
         /\ errno' = IF ok THEN errno ELSE "EMFILE"
         /\ diag' = IF ok THEN diag ELSE Append(diag, Line("UDP socket"))
         /\ pc' = NextAfterUdpOpen(ok)
    /\ exit_status' = ExitStatusAt(pc')
    /\ UNCHANGED <<loopLocals, argv, dest_addr, budget>>

\* The whole program: main's start-up, then run_gateway.
NextMain ==
    \/ CheckArgs \/ ParseDest \/ LockMemory \/ SetRealtimePriority
    \/ OpenCanSocket \/ OpenUdpSocket
    \/ Enter \/ ReadFull \/ ReadShort \/ ReadError \/ BuildPacket \/ SendPacket

SpecMain == InitMain /\ [][NextMain]_vars

(************************ reading the histories ****************************)
\* Decoding a datagram by the fixed offsets of the packed GatewayPacket.
WireTimestamp(buf) == Slice(buf, 1, 8)
WireCanId(buf) == Slice(buf, 9, 12)
WireDlc(buf) == buf[13]
WireFlags(buf) == buf[14]
WireData(buf) == Slice(buf, 15, PACKET_SIZE)

\* The i-th read() returned one complete frame.
IsFull(i) == reads[i].nbytes = FRAME_SIZE
FullUpTo(i) == Cardinality({j \in 1..i : IsFull(j)})
NFull == FullUpTo(Len(reads))
\* A frame has been read and its sendto() has not been called yet.
InFlight == IF pc \in {"build", "send"} THEN 1 ELSE 0
\* The k-th sendto() was made for a read() that returned a complete frame.
ServesFull(k) == sent[k].at \in DOMAIN reads /\ IsFull(sent[k].at)
\* The bytes of the frame the k-th sendto() was made for.
SrcBytes(k) == reads[sent[k].at].bytes
SrcLen(k) == SrcBytes(k)[5]
SrcFlags(k) == SrcBytes(k)[6]

RECURSIVE LeFrom(_, _, _)
LeFrom(a, b, i) ==
    IF i = 0 THEN TRUE
    ELSE IF a[i] # b[i] THEN a[i] < b[i]
    ELSE LeFrom(a, b, i - 1)
\* a <= b for little-endian unsigned integers of equal width
LeUnsigned(a, b) == LeFrom(a, b, Len(a))

(****************************** claims *************************************)

\* C1: a read() that does not return exactly one full frame (short, empty or
\* failed) causes no sendto() and is followed by another read(): the number
\* of sendto() calls, plus the frame being processed, equals the number of
\* full reads; every sendto() belongs to a full read; right after a failed
\* read the loop is at read() again; and the frame buffer a packet is built
\* from holds exactly the bytes of that full read, nothing of a partial one.
C1_FailedReadSendsNothing ==
    /\ Len(sent) + InFlight = NFull
    /\ \A k \in DOMAIN sent : ServesFull(k)
    /\ (reads # <<>> /\ ~IsFull(Len(reads))) => pc = "read"
    /\ pc \in {"build", "send"} =>
          /\ reads # <<>>
          /\ IsFull(Len(reads))
          /\ FrameBytes(frame) = reads[Len(reads)].bytes

\* Two failed reads, the first a short one that overwrote the start of the
\* frame buffer, then one full read and its single sendto().
C1_Witness ==
    /\ Len(reads) = 3
    /\ reads[1].nbytes = CAN_MTU
    /\ reads[2].nbytes < 0
    /\ IsFull(3)
    /\ Len(sent) = 1
    /\ pc = "read"

\* C2: the sendto() calls correspond one-to-one and in order to the full
\* reads: the k-th sendto() was made for the k-th full read and carries that
\* frame's identifier, length and payload, and whenever the loop is about to
\* read, every frame read so far has had its sendto() (so the sendto() for
\* frame k has returned before the read of frame k+1 starts).
C2_SendsFollowReadsInOrder ==
    /\ Len(sent) <= NFull
    /\ NFull - Len(sent) = InFlight
    /\ pc = "read" => Len(sent) = NFull
    /\ \A k \in DOMAIN sent :
          /\ k <= NFull
          /\ ServesFull(k)
          /\ FullUpTo(sent[k].at) = k
          /\ WireCanId(sent[k].buf) = Slice(SrcBytes(k), 1, 4)
          /\ WireDlc(sent[k].buf) = SrcLen(k)
          /\ Slice(WireData(sent[k].buf), 1, SrcLen(k)) = Slice(SrcBytes(k), 9, 8 + SrcLen(k))

\* Three different frames read with a failed read nowhere and sent in the
\* order read.
C2_Witness ==
    /\ Len(sent) = 3
    /\ NFull = 3
    /\ WireDlc(sent[1].buf) = 64
    /\ WireDlc(sent[2].buf) = 3
    /\ WireDlc(sent[3].buf) = 63

\* C3: when sendto() fails the loop reports it once ("sendto UDP") and goes
\* on to read the next frame: the failed packet is not passed to sendto()
\* again, the loop is at read() or already past a later read, and every full
\* read whose iteration is over has had exactly one sendto(), whatever the
\* results of the earlier sendto() calls.
C3_SendFailureIsDropped ==
    /\ \A k \in DOMAIN sent :
          sent[k].rc < 0 =>
             /\ Cardinality({d \in DOMAIN diag :
                    diag[d] = [msg |-> "sendto UDP", at |-> sent[k].at]}) = 1
             /\ \A j \in DOMAIN sent : j # k => sent[j].at # sent[k].at
             /\ k = Len(sent) => (pc = "read" \/ (InFlight = 1 /\ Len(reads) > sent[k].at))
    /\ \A i \in DOMAIN reads :
          (IsFull(i) /\ (i < Len(reads) \/ pc = "read")) =>
             Cardinality({k \in DOMAIN sent : sent[k].at = i}) = 1
    /\ Cardinality({d \in DOMAIN diag : diag[d].msg = "sendto UDP"})
          = Cardinality({k \in DOMAIN sent : sent[k].rc < 0})

\* Two sendto() failures in a row, then a third frame read and sent.
C3_Witness ==
    /\ Len(sent) = 3
    /\ sent[1].rc < 0
    /\ sent[2].rc < 0
    /\ sent[3].rc >= 0
    /\ sent[3].at > sent[2].at

\* Packet storage that has never held a frame: the reference the next
\* property compares against.
BlankPacket ==
    [timestamp_ns |-> Fill(0, 8), can_id |-> Fill(0, 4), dlc |-> 0, flags |-> 0,
     data |-> Fill(0, CANFD_MAX_DLEN)]

\* C4: every datagram handed to sendto() is determined by the frame read in
\* that iteration and the clock reading of that iteration alone: it equals
\* the packet the same assignments produce in storage that never held
\* anything, and two sendto() calls of one run with the same frame and the
\* same clock reading, made after different histories, carry identical bytes.
C4_PacketDependsOnlyOnFrameAndTime ==
    \A k \in DOMAIN sent :
        ServesFull(k) =>
           /\ sent[k].buf =
                 PacketBytes(FillPacket(BlankPacket, FrameOf(SrcBytes(k)), sent[k].ts))
           /\ \A j \in DOMAIN sent :
                 (ServesFull(j) /\ SrcBytes(j) = SrcBytes(k) /\ sent[j].ts = sent[k].ts)
                    => sent[j].buf = sent[k].buf

\* The same 3-byte frame sent twice at the same clock reading, the first
\* time out of what the stack held, the second time after a 64-byte frame
\* with both flags whose sendto() failed.
C4_Witness ==
    /\ Len(sent) = 3
    /\ SrcBytes(1) = SrcBytes(3)
    /\ sent[1].ts = sent[3].ts
    /\ SrcLen(1) = 3
    /\ SrcLen(2) = 64 /\ WireFlags(sent[2].buf) = 3 /\ sent[2].rc < 0

\* C5: in every packet sent for a frame of length L < 64, data[L..63] are
\* all zero, whatever the packet buffer held before.
C5_TailIsZero ==
    \A k \in DOMAIN sent :
        (ServesFull(k) /\ SrcLen(k) < 64) =>
           Slice(WireData(sent[k].buf), SrcLen(k) + 1, 64) = Fill(0, 64 - SrcLen(k))

\* A frame of 64 bytes FF sent, then an empty frame whose data[] holds
\* leftovers: the second packet is sent from a buffer full of FF.
C5_Witness ==
    /\ Len(sent) >= 2
    /\ SrcLen(1) = 64 /\ WireData(sent[1].buf)[64] = 255
    /\ SrcLen(2) = 0 /\ SrcBytes(2)[9] # 0

\* C6: in every packet sent for a frame of length L <= 64, data[0..L-1] are
\* the first L payload bytes of the frame read in that iteration.
C6_PayloadIsCopied ==
    \A k \in DOMAIN sent :
        (ServesFull(k) /\ SrcLen(k) <= 64) =>
           Slice(WireData(sent[k].buf), 1, SrcLen(k)) = Slice(SrcBytes(k), 9, 8 + SrcLen(k))

\* A 63-byte payload and a 64-byte payload, both sent.
C6_Witness ==
    /\ Len(sent) >= 2
    /\ SrcLen(1) = 63 /\ WireData(sent[1].buf)[63] = 63
    /\ SrcLen(2) = 64 /\ WireData(sent[2].buf)[64] = 255

\* C7: in every packet sent, flags bit 0 is the frame's BRS bit, bit 1 its
\* ESI bit, and bits 2..7 are zero, whatever else the frame's flag byte and
\* earlier frames' flags held: the value is one of 0, 1, 2, 3.
C7_FlagsAreBrsAndEsi ==
    \A k \in DOMAIN sent :
        ServesFull(k) =>
           /\ WireFlags(sent[k].buf) \in {0, 1, 2, 3}
           /\ WireFlags(sent[k].buf) % 2 = SrcFlags(k) % 2
           /\ (WireFlags(sent[k].buf) \div 2) % 2 = (SrcFlags(k) \div 2) % 2

\* BRS|ESI|FDF sent as 3, then a frame with only unknown flag bits sent as 0,
\* then ESI alone sent as 2.
C7_Witness ==
    /\ Len(sent) = 3
    /\ SrcFlags(1) = 7 /\ WireFlags(sent[1].buf) = 3
    /\ SrcFlags(2) = 252 /\ WireFlags(sent[2].buf) = 0
    /\ SrcFlags(3) = 2 /\ WireFlags(sent[3].buf) = 2

\* C8: timestamp_ns is non-decreasing over the packets in send order when
\* the clock readings are: seconds * 10^9 + nanoseconds in 64-bit unsigned
\* arithmetic keeps the order of the readings.
C8_TimestampsNonDecreasing ==
    \A j, k \in DOMAIN sent :
        (j < k /\ TsLe(sent[j].ts, sent[k].ts)) =>
           LeUnsigned(WireTimestamp(sent[j].buf), WireTimestamp(sent[k].buf))

\* Two packets stamped one nanosecond apart across a second boundary:
\* 0.999999999 s and 1.000000000 s, the latter sent as 00 CA 9A 3B 00 00 00 00.
C8_Witness ==
    /\ Len(sent) >= 2
    /\ sent[1].ts = [tv_sec |-> 0, tv_nsec |-> NSEC_PER_SEC - 1]
    /\ sent[2].ts = [tv_sec |-> 1, tv_nsec |-> 0]
    /\ WireTimestamp(sent[1].buf) = <<255, 201, 154, 59, 0, 0, 0, 0>>
    /\ WireTimestamp(sent[2].buf) = <<0, 202, 154, 59, 0, 0, 0, 0>>

\* C9 as stated: a failed read (short read or read error) is retried with
\* nothing written to the diagnostic channel.
C9_FailedReadIsSilent ==
    \A i \in DOMAIN reads :
        ~IsFull(i) =>
           /\ ~ \E d \in DOMAIN diag : diag[d].at = i /\ diag[d].msg = "read CAN"
           /\ i = Len(reads) => pc = "read"

\* C9, amended: every failed read is followed by another read; a short or
\* empty read and a read interrupted by a signal (EINTR) write nothing to
\* stderr, a read that fails with any other errno writes "read CAN" once.
C9_OnlyEintrAndShortReadsAreSilent ==
    \A i \in DOMAIN reads :
        /\ Cardinality({d \in DOMAIN diag : diag[d] = [msg |-> "read CAN", at |-> i]})
              = IF reads[i].nbytes < 0 /\ reads[i].errno # "EINTR" THEN 1 ELSE 0
        /\ (~IsFull(i) /\ i = Len(reads)) => pc = "read"

\* A short read, an interrupted read and a read failing with ENETDOWN: one
\* line on stderr, for the last of them.
C9_Witness ==
    /\ Len(reads) = 3
    /\ reads[1].nbytes = CAN_MTU
    /\ reads[2].nbytes < 0 /\ reads[2].errno = "EINTR"
    /\ reads[3].nbytes < 0 /\ reads[3].errno = "ENETDOWN"
    /\ diag = <<[msg |-> "read CAN", at |-> 3]>>
    /\ pc = "read"

\* C10: once run_gateway has been entered the thread stays inside the loop,
\* at read(), at the packet assignments or at sendto(): no read outcome and
\* no sendto() outcome takes it to the code after the loop, and when no
\* frame is being processed it is at read().
C10_LoopNeverReturns ==
    /\ pc \in {"entry", "read", "build", "send"}
    /\ (pc # "entry" /\ InFlight = 0) => pc = "read"
    /\ (reads # <<>> \/ sent # <<>>) => pc \in {"read", "build", "send"}

\* After a failed read, a short read and a failed sendto() the loop is at
\* read() again.
C10_Witness ==
    /\ pc = "read"
    /\ \E i \in DOMAIN reads : reads[i].nbytes < 0 /\ reads[i].errno = "ENETDOWN"
    /\ \E i \in DOMAIN reads : reads[i].nbytes = 0
    /\ \E k \in DOMAIN sent : sent[k].rc < 0

\* A full read whose iteration is over: the loop has gone on to the next
\* read() call, or stands at it.
Finished(i) == IsFull(i) /\ (i < Len(reads) \/ pc = "read")
SendsFor(i) == {k \in DOMAIN sent : sent[k].at = i}

C14_DlcIsLengthFrom1To64 ==
    \A k \in DOMAIN sent :
        ServesFull(k) =>
           /\ WireDlc(sent[k].buf) = SrcLen(k)
           /\ WireDlc(sent[k].buf) \in 1..64

\* C15: in every packet sent, can_id is the four identifier bytes of the
\* frame read in that iteration, marker bits included, and no frame misses
\* its sendto() because of its identifier.
C15_CanIdIsVerbatim ==
    /\ \A k \in DOMAIN sent :
          ServesFull(k) => WireCanId(sent[k].buf) = Slice(SrcBytes(k), 1, 4)
    /\ \A i \in DOMAIN reads : Finished(i) => Cardinality(SendsFor(i)) = 1

\* Identifiers with CAN_EFF_FLAG (0x9ABCDEF0), CAN_RTR_FLAG (0x400007FF) and
\* CAN_ERR_FLAG (0x20000001) sent one after the other.
C15_Witness ==
    /\ Len(sent) = 3
    /\ WireCanId(sent[1].buf) = <<240, 222, 188, 154>>
    /\ WireCanId(sent[2].buf) = <<255, 7, 0, 64>>
    /\ WireCanId(sent[3].buf) = <<1, 0, 0, 32>>

\* C16: every sendto() transmits exactly 78 bytes, whatever the frame's
\* length: 8 of timestamp, 4 of id, dlc, flags and 64 of data without gaps,
\* one datagram for each fully read frame.
C16_DatagramIs78Bytes ==
    /\ \A k \in DOMAIN sent :
          /\ Len(sent[k].buf) = 78
          /\ Len(WireTimestamp(sent[k].buf)) = 8
          /\ Len(WireCanId(sent[k].buf)) = 4
          /\ Len(WireData(sent[k].buf)) = 64
          /\ sent[k].rc >= 0 => sent[k].rc = 78
    /\ \A i \in DOMAIN reads : Finished(i) => Cardinality(SendsFor(i)) = 1

\* Frames of 0, 3 and 64 bytes, each sent as one datagram.
C16_Witness ==
    /\ Len(sent) = 3
    /\ SrcLen(1) = 0 /\ SrcLen(2) = 3 /\ SrcLen(3) = 64
    /\ \A k \in 1..3 : sent[k].rc = 78

\* C17: the timestamp of the k-th packet sent is the reading of the k-th
\* clock_gettime() call, which was made after the read() of that frame had
\* returned in full and before the k-th sendto(); the clock is read for full
\* reads only, and once for each of them.
C17_TimestampIsFreshReading ==
    /\ Len(clocks) = Len(sent) + (IF pc = "send" THEN 1 ELSE 0)
    /\ \A k \in DOMAIN clocks :
          /\ IsFull(clocks[k].at)
          /\ clocks[k].sends = k - 1
          /\ k > 1 => clocks[k - 1].at < clocks[k].at
    /\ \A k \in DOMAIN sent :
          /\ clocks[k].at = sent[k].at
          /\ WireTimestamp(sent[k].buf) = TimestampNs(clocks[k].r)

\* Two frames sent around a failed read while the clock stood still: two
\* clock_gettime() calls with the same reading, none for the failed read.
C17_Witness ==
    /\ Len(sent) = 2 /\ Len(clocks) = 2 /\ Len(reads) = 3
    /\ reads[2].nbytes = -1
    /\ clocks[1].at = 1 /\ clocks[2].at = 3
    /\ clocks[1].r = clocks[2].r
    /\ clocks[1].r # [tv_sec |-> 0, tv_nsec |-> 0]

\* C18: whatever the length byte of a fully read frame (0..255), every
\* memcpy() of the loop stays within the 64 bytes of frame.data and of
\* pkt.data, the loop is not stopped, and no packet is sent with dlc above 64.
C18_CopyStaysWithin64 ==
    /\ \A c \in DOMAIN copies :
          copies[c].n <= copies[c].src /\ copies[c].n <= copies[c].dst
    /\ \A k \in DOMAIN sent : WireDlc(sent[k].buf) <= 64
    /\ pc # "aborted"

\* Positions inside run_gateway.
LoopPcs == {"entry", "read", "build", "send"}
Failed(c) == \E i \in DOMAIN host : host[i].call = c /\ ~host[i].ok
Succeeded(c) == \E i \in DOMAIN host : host[i].call = c /\ host[i].ok
\* The lines main's start-up wrote to stderr.
StartupLines == SelectSeq(diag, LAMBDA l : l.at = 0)

\* C11: with an argument count other than two, with a destination that does
\* not parse, or with a bus socket that cannot be created, resolved or bound,
\* the process exits with a non-zero status at that point: run_gateway is
\* not entered and neither read() nor sendto() is ever called.
C11_BadStartExitsBeforeLoop ==
    /\ Len(argv) # 2 => pc \in {"main", "exited"}
    /\ (Len(argv) = 2 /\ ~ParseAddress(argv[2], ZeroAddr).ret)
          => pc \in {"main", "parse", "exited"}
    /\ \A c \in {"parse_address", "socket(PF_CAN)", "ioctl(SIOCGIFINDEX)", "bind"} :
          Failed(c) => pc = "exited"
    /\ pc = "exited" =>
          /\ exit_status = <<EXIT_FAILURE>>
          /\ exit_status[1] # 0
          /\ reads = <<>> /\ sent = <<>> /\ clocks = <<>>
    /\ pc # "exited" => exit_status = <<>>

\* A valid command line, memory locked and priority raised, the bus socket
\* created and the interface found, but bind() fails: the process has exited.
C11_Witness ==
    /\ pc = "exited"
    /\ argv = <<"can0", ExampleDest>>
    /\ Succeeded("mlockall") /\ Succeeded("sched_setscheduler")
    /\ Succeeded("ioctl(SIOCGIFINDEX)") /\ Failed("bind")
    /\ exit_status = <<1>>

\* C12: a failure of mlockall() or of sched_setscheduler() only writes a
\* warning: it never ends the process, so with a valid command line and both
\* sockets open run_gateway is entered whatever the two calls returned, and
\* the packets it sends and their destination are those the frames, the
\* clock and the command line determine.
C12_WarningsDoNotStopTheGateway ==
    /\ pc = "exited" =>
          \/ Len(argv) # 2
          \/ /\ host # <<>>
             /\ ~host[Len(host)].ok
             /\ host[Len(host)].call \notin {"mlockall", "sched_setscheduler"}
    /\ (Len(argv) = 2 /\ ParseAddress(argv[2], ZeroAddr).ret
           /\ Succeeded("bind") /\ Succeeded("socket(AF_INET)")) => pc \in LoopPcs
    /\ pc \in LoopPcs =>
          StartupLines =
             (IF Failed("mlockall") THEN <<Line("WARNING: mlockall failed")>> ELSE <<>>)
             \o (IF Failed("sched_setscheduler")
                 THEN <<Line("WARNING: Failed to set SCHED_FIFO")>> ELSE <<>>)
    /\ \A k \in DOMAIN sent :
          /\ sent[k].to = ParseAddress(argv[2], ZeroAddr).addr
          /\ sent[k].buf =
                PacketBytes(FillPacket(BlankPacket, FrameOf(SrcBytes(k)), clocks[k].r))

\* Both calls failed, both warnings were written, and a frame has been
\* forwarded.
C12_Witness ==
    /\ Failed("mlockall") /\ Failed("sched_setscheduler")
    /\ Len(StartupLines) = 2
    /\ Len(sent) = 1 /\ sent[1].rc = PACKET_SIZE
    /\ WireDlc(sent[1].buf) = 64

\* The destination text split the way the claim reads it: what stands before
\* the first colon, and the integer after it.
DestIp == ScanSet(argv[2], Len(argv[2]))
DestPort == ScanInt(SubSeq(argv[2], Len(DestIp) + 2, Len(argv[2])))
DestHasShape ==
    /\ DestIp # <<>>
    /\ Len(argv[2]) > Len(DestIp)
    /\ DestPort.ok

\* C19: parse_address does not check the port's range: for a text IP:p with
\* a valid IPv4 address and an integer p it returns true and stores
\* p mod 2^16 in network byte order, also for p < 0 and p > 65535; it
\* returns false only if the text is not of the shape text:integer or the
\* address is not valid IPv4.
C19_PortIsTruncatedNotChecked ==
    Succeeded("parse_address") \/ Failed("parse_address") =>
       /\ host[1].call = "parse_address"
       /\ host[1].ok <=> (DestHasShape /\ InetPton(DestIp).rc = 1)
       /\ host[1].ok =>
             LET p == DestPort.value
                 q == IF p >= 0 THEN p - 65536 * (p \div 65536)
                                ELSE p + 65536 * ((65535 - p) \div 65536)
             IN  /\ q \in 0..65535
                 /\ dest_addr.sin_port[1] * 256 + dest_addr.sin_port[2] = q
                 /\ dest_addr.sin_family = AF_INET
                 /\ dest_addr.sin_addr = InetPton(DestIp).addr
       /\ argv[2] = Ip10 \o <<":", "7", "0", "0", "0", "0">>
             => host[1].ok /\ dest_addr.sin_port = <<17, 112>>
       /\ argv[2] = Ip10 \o <<":", "6", "5", "5", "3", "6">>
             => host[1].ok /\ dest_addr.sin_port = <<0, 0>>
       /\ argv[2] = Ip10 \o <<":", "-", "1">>
             => host[1].ok /\ dest_addr.sin_port = <<255, 255>>
       /\ argv[2] = ExampleDest
             => host[1].ok /\ dest_addr.sin_port = <<19, 136>>
                           /\ dest_addr.sin_addr = <<192, 168, 1, 100>>

\* "10.0.0.1:-1" was accepted and a packet has gone to port 65535.
C19_Witness ==
    /\ argv = <<"can0", Ip10 \o <<":", "-", "1">> >>
    /\ Succeeded("parse_address")
    /\ dest_addr = [sin_family |-> 2, sin_port |-> <<255, 255>>,
                    sin_addr |-> <<10, 0, 0, 1>>]
    /\ Len(sent) = 1 /\ sent[1].to = dest_addr

====
